---- MODULE Spec2Model ----
(***************************************************************************)
(* A model of lib/Dispatcher.js: the Dispatcher class that validates and   *)
(* sends protocol commands over a connection, correlates replies with      *)
(* pending requests by id and fans events out to per-domain listeners.     *)
(*                                                                         *)
(* JavaScript values are tagged records.  A JavaScript string is a         *)
(* sequence of pieces; the piece "." is the dot character and no other     *)
(* piece contains a dot, so concatenation is \o, and indexOf('.') and      *)
(* substr work on pieces as they do on characters.  A plain object is its  *)
(* own properties (a function from property keys to values) in front of    *)
(* Object.prototype: a property read that misses the own properties is     *)
(* answered by Object.prototype, as in the language.                       *)
(***************************************************************************)
EXTENDS Integers, Sequences, FiniteSets, TLC

VARIABLES
    id,               \* this._id
    resolvers,        \* this._resolvers: own properties, key -> resolve function
    rejectors,        \* this._rejectors: own properties, key -> reject function
    domainListeners,  \* this._domainListeners: own properties, key -> array
    futures,          \* the promises created by send, in creation order
    sentIds,          \* ids of the envelopes handed to connection.send, in order
    last              \* the last call made on the dispatcher and what it did

vars == <<id, resolvers, rejectors, domainListeners, futures, sentIds, last>>

-----------------------------------------------------------------------------
(* Bounds *)

MaxId == 2          \* sends that allocate an id
MaxListeners == 2   \* successful registerDomainListener calls

-----------------------------------------------------------------------------
(* JavaScript values *)

Undefined == [t |-> "undefined"]
Null == [t |-> "null"]
Num(n) == [t |-> "number", n |-> n]
Str(s) == [t |-> "string", s |-> s]
Fn(name) == [t |-> "function", name |-> name]
Arr(items) == [t |-> "array", items |-> items]
\* an object whose key order is read (Object.entries): own properties in
\* insertion order, each [k |-> key, v |-> value]
Obj(props) == [t |-> "object", props |-> props]
\* an object whose key order is never read: own properties as a function
Plain(own) == [t |-> "plain", own |-> own]
ObjectPrototypeValue == [t |-> "Object.prototype"]
\* the resolve / reject function of the promise that send created as future f
ResolveOf(f) == [t |-> "function", name |-> "resolve", fut |-> f]
RejectOf(f) == [t |-> "function", name |-> "reject", fut |-> f]

\* a one-piece string
S(piece) == <<piece>>

EmptyMap == [k \in {} |-> Undefined]

\* ToBoolean
Truthy(v) ==
    CASE v.t = "undefined" -> FALSE
      [] v.t = "null" -> FALSE
      [] v.t = "number" -> v.n # 0
      [] v.t = "string" -> v.s # <<>>
      [] OTHER -> TRUE

\* the properties every plain object inherits (the ones the inputs name)
ObjectPrototype ==
    (S("constructor") :> Fn("Object")) @@ (S("__proto__") :> ObjectPrototypeValue)

\* o[k] for a plain object with own properties `own`
PlainGet(own, k) ==
    IF k \in DOMAIN own THEN own[k]
    ELSE IF k \in DOMAIN ObjectPrototype THEN ObjectPrototype[k]
    ELSE Undefined

\* delete o[k]
Delete(own, k) == [x \in DOMAIN own \ {k} |-> own[x]]

\* o[k] = v
Put(own, k, v) == [x \in DOMAIN own \cup {k} |-> IF x = k THEN v ELSE own[x]]

RECURSIVE PropIndex(_, _, _)
PropIndex(props, k, i) ==
    IF i > Len(props) THEN 0
    ELSE IF props[i].k = k THEN i
    ELSE PropIndex(props, k, i + 1)

\* o[k] on any value the dispatcher indexes
Get(v, k) ==
    CASE v.t = "plain" -> PlainGet(v.own, k)
      [] v.t = "object" ->
            IF PropIndex(v.props, k, 1) # 0 THEN v.props[PropIndex(v.props, k, 1)].v
            ELSE PlainGet(EmptyMap, k)
      [] v.t = "function" ->
            IF k = S("constructor") THEN Fn("Function") ELSE Undefined
      [] v.t = "Object.prototype" ->
            IF k = S("__proto__") THEN Null ELSE PlainGet(EmptyMap, k)
      [] OTHER -> Undefined

\* o[k] = v on an object literal: an existing key keeps its place
SetProp(o, k, v) ==
    IF PropIndex(o.props, k, 1) # 0
    THEN Obj([o.props EXCEPT ![PropIndex(o.props, k, 1)] = [k |-> k, v |-> v]])
    ELSE Obj(Append(o.props, [k |-> k, v |-> v]))

\* Object.keys / Object.entries order: own enumerable properties, in insertion
\* order; functions, numbers and Object.prototype have none
OwnEntries(v) == IF v.t = "object" THEN v.props ELSE <<>>

\* Number to property key / decimal text
Digits == <<"0", "1", "2", "3", "4", "5", "6", "7", "8", "9">>
DecStr(n) == S(Digits[n + 1])

\* String.prototype.indexOf('.'), 0-based, -1 when absent
RECURSIVE IndexFrom(_, _, _)
IndexFrom(s, piece, i) ==
    IF i > Len(s) THEN -1
    ELSE IF s[i] = piece THEN i - 1
    ELSE IndexFrom(s, piece, i + 1)
indexOf(s, piece) == IndexFrom(s, piece, 1)

\* String.prototype.substr(start, length) for start >= 0: a negative length
\* gives the empty string
substr(s, start, length) ==
    IF length <= 0 \/ start >= Len(s) THEN <<>>
    ELSE SubSeq(s, start + 1, IF start + length > Len(s) THEN Len(s) ELSE start + length)

\* String.prototype.substr(start) for start >= 0
substrFrom(s, start) == IF start >= Len(s) THEN <<>> ELSE SubSeq(s, start + 1, Len(s))

\* Array.prototype.join
RECURSIVE join(_, _)
join(items, sep) ==
    IF items = <<>> THEN <<>>
    ELSE IF Len(items) = 1 THEN items[1]
    ELSE items[1] \o sep \o join(Tail(items), sep)

-----------------------------------------------------------------------------
(* The protocol definition handed to the constructor *)

Protocol ==
    [domains |-> <<
        [domain |-> S("Page"),
         commands |-> <<
            [name |-> S("navigate"),
             parameters |-> << [name |-> S("url")],
                               [name |-> S("referrer"), optional |-> TRUE],
                               [name |-> S("frameId"), optional |-> FALSE] >>],
            [name |-> S("reload")],
            [name |-> S("stop"), parameters |-> <<>>],
            [name |-> S("capture"),
             parameters |-> << [name |-> S("format"), optional |-> TRUE] >>] >>,
         events |-> << [name |-> S("loaded")] >>],
        [domain |-> S("Network"),
         commands |-> << [name |-> S("enable")] >>] >>]

\* lines 30-32: parameters.forEach, one property per parameter name
RECURSIVE parameterIndex(_, _, _)
parameterIndex(parameters, i, acc) ==
    IF i > Len(parameters) THEN acc
    ELSE parameterIndex(parameters, i + 1,
                        SetProp(acc, parameters[i].name, parameters[i]))

\* commandIndex with the early return of line 27 taken before line 23 creates
\* the command's entry
RECURSIVE commandIndexSkipping(_, _, _)
commandIndexSkipping(commands, i, acc) ==
    IF i > Len(commands) THEN acc
    ELSE commandIndexSkipping(commands, i + 1,
            IF "parameters" \in DOMAIN commands[i]
            THEN Put(acc, commands[i].name,
                     parameterIndex(commands[i].parameters, 1, Obj(<<>>)))
            ELSE acc)

\* lines 22-33: commands.forEach, one (possibly empty) object per command
RECURSIVE commandIndex(_, _, _)
commandIndex(commands, i, acc) ==
    IF i > Len(commands) THEN acc
    ELSE commandIndex(commands, i + 1,
            Put(acc, commands[i].name,
                IF "parameters" \in DOMAIN commands[i]
                THEN parameterIndex(commands[i].parameters, 1, Obj(<<>>))
                ELSE Obj(<<>>)))

\* lines 20-34: protocol.domains.forEach
RECURSIVE domainIndex(_, _, _)
domainIndex(domains, i, acc) ==
    IF i > Len(domains) THEN acc
    ELSE domainIndex(domains, i + 1,
            Put(acc, domains[i].domain,
                Plain(commandIndex(domains[i].commands, 1, EmptyMap))))

\* this._parameterMap after construction (own properties)
parameterMap == domainIndex(Protocol.domains, 1, EmptyMap)

-----------------------------------------------------------------------------
(* _validateParams *)

\* missingParams testing whether params has the key instead of the type of
\* its value
RECURSIVE missingParamsByKey(_, _, _)
missingParamsByKey(entries, params, i) ==
    IF i > Len(entries) THEN <<>>
    ELSE LET paramName == entries[i].k
             paramDef == entries[i].v
             optionalIsTrue == "optional" \in DOMAIN paramDef /\ paramDef.optional = TRUE
             rest == missingParamsByKey(entries, params, i + 1)
         IN  IF ~optionalIsTrue /\ paramName \notin DOMAIN params
             THEN <<paramName>> \o rest
             ELSE rest

\* lines 53-60: the names of the non-optional parameters with no defined
\* value in params, in Object.entries order
RECURSIVE missingParams(_, _, _)
missingParams(entries, params, i) ==
    IF i > Len(entries) THEN <<>>
    ELSE LET paramName == entries[i].k
             paramDef == entries[i].v
             param == PlainGet(params, paramName)
             optionalIsTrue == "optional" \in DOMAIN paramDef /\ paramDef.optional = TRUE
             rest == missingParams(entries, params, i + 1)
         IN  IF ~optionalIsTrue /\ param.t = "undefined"
             THEN <<paramName>> \o rest
             ELSE rest

validateParams(namespace, method, params) ==
    LET nsValue == PlainGet(parameterMap, namespace) IN
    IF ~Truthy(nsValue)
    THEN [error |-> Str(S("unknown namespace: ") \o namespace)]
    ELSE LET knownParams == Get(nsValue, method) IN
         IF ~Truthy(knownParams)
         THEN [error |-> Str(S("unknown method: ") \o namespace \o S(".") \o method)]
         ELSE IF Len(OwnEntries(knownParams)) = 0
         THEN [error |-> Num(0)]
         ELSE LET missing == missingParams(OwnEntries(knownParams), params, 1) IN
              IF Len(missing) > 0
              THEN [error |-> Str(method \o S(" requires '") \o join(missing, S(","))
                                  \o S("' parameter"))]
              ELSE [error |-> Num(0)]

-----------------------------------------------------------------------------
(* The dispatcher as a value, and what one call on it did *)

\* the dispatcher's fields together with the observers' records
Dispatcher ==
    [id |-> id, resolvers |-> resolvers, rejectors |-> rejectors,
     domainListeners |-> domainListeners, futures |-> futures, sentIds |-> sentIds]

NoError == [t |-> "none"]
Error(message) == [t |-> "Error", message |-> message]
TypeError == [t |-> "TypeError"]

\* the outcome of one call: the dispatcher after it, what it threw, the
\* envelopes it handed to the connection, the listener calls and the
\* resolve / reject calls it made, in order
Outcome(d, threw, sent, invoked, settled) ==
    [d |-> d, threw |-> threw, sent |-> sent, invoked |-> invoked, settled |-> settled]

\* a promise as send creates it; request is the id in the envelope of the
\* send that created it
NewFuture(request) ==
    [state |-> "pending", value |-> Undefined, calls |-> 0, request |-> request]

\* calling the resolve or reject function of a promise: the first call
\* settles the promise, a later call changes nothing but is counted
Settle(fs, f, how, value) ==
    [fs EXCEPT ![f] =
        IF @.state = "pending"
        THEN [@ EXCEPT !.state = how, !.value = value, !.calls = @ + 1]
        ELSE [@ EXCEPT !.calls = @ + 1]]

-----------------------------------------------------------------------------
(* _handleMessage *)

\* the property key a value is converted to when it indexes an object
ToPropertyKey(v) == IF v.t = "number" THEN DecStr(v.n) ELSE v.s

\* handleReply without the deletes of lines 86-87
handleReplyKeeping(d, message) ==
    LET key == ToPropertyKey(message.id)
        isError == Truthy(message.error)
        callee == IF isError THEN PlainGet(d.rejectors, key)
                  ELSE PlainGet(d.resolvers, key)
        argument == IF isError THEN Get(message.error, S("message"))
                    ELSE message.result
    IN  IF ~Truthy(callee) \/ "fut" \notin DOMAIN callee
        THEN Outcome(d, NoError, <<>>, <<>>, <<>>)
        ELSE LET how == IF callee.name = "resolve" THEN "resolved" ELSE "rejected" IN
             Outcome([d EXCEPT !.futures = Settle(@, callee.fut, how, argument)],
                     NoError, <<>>, <<>>,
                     << [fut |-> callee.fut, how |-> callee.name, value |-> argument] >>)

\* handleReply passing the error object itself to the rejector
handleReplyWholeError(d, message) ==
    LET key == ToPropertyKey(message.id)
        isError == Truthy(message.error)
        callee == IF isError THEN PlainGet(d.rejectors, key)
                  ELSE PlainGet(d.resolvers, key)
        argument == IF isError THEN message.error ELSE message.result
        cleaned == [d EXCEPT !.resolvers = Delete(@, key), !.rejectors = Delete(@, key)]
    IN  IF ~Truthy(callee) \/ "fut" \notin DOMAIN callee
        THEN Outcome(cleaned, NoError, <<>>, <<>>, <<>>)
        ELSE LET how == IF callee.name = "resolve" THEN "resolved" ELSE "rejected" IN
             Outcome([cleaned EXCEPT !.futures = Settle(@, callee.fut, how, argument)],
                     NoError, <<>>, <<>>,
                     << [fut |-> callee.fut, how |-> callee.name, value |-> argument] >>)

\* handleReply without the else of line 79: the resolver is called after the
\* rejector
handleReplyFallingThrough(d, message) ==
    LET key == ToPropertyKey(message.id)
        isError == Truthy(message.error)
        rejector == PlainGet(d.rejectors, key)
        resolver == PlainGet(d.resolvers, key)
        cleaned == [d EXCEPT !.resolvers = Delete(@, key), !.rejectors = Delete(@, key)]
        rejected == << [fut |-> rejector.fut, how |-> "reject",
                        value |-> Get(message.error, S("message"))] >>
        resolved == << [fut |-> resolver.fut, how |-> "resolve",
                        value |-> message.result] >>
    IN  IF ~Truthy(resolver) \/ "fut" \notin DOMAIN resolver
        THEN Outcome(cleaned, NoError, <<>>, <<>>, <<>>)
        ELSE IF isError
        THEN Outcome([cleaned EXCEPT !.futures =
                         Settle(Settle(@, rejector.fut, "rejected", rejected[1].value),
                                resolver.fut, "resolved", message.result)],
                     NoError, <<>>, <<>>, rejected \o resolved)
        ELSE Outcome([cleaned EXCEPT !.futures =
                         Settle(@, resolver.fut, "resolved", message.result)],
                     NoError, <<>>, <<>>, resolved)

\* handleReply choosing by the result field: resolve when there is a result
handleReplyByResult(d, message) ==
    LET key == ToPropertyKey(message.id)
        isError == ~Truthy(message.result)
        callee == IF isError THEN PlainGet(d.rejectors, key)
                  ELSE PlainGet(d.resolvers, key)
        argument == IF isError THEN Get(message.error, S("message"))
                    ELSE message.result
        cleaned == [d EXCEPT !.resolvers = Delete(@, key), !.rejectors = Delete(@, key)]
    IN  IF ~Truthy(callee) \/ "fut" \notin DOMAIN callee
        THEN Outcome(cleaned, NoError, <<>>, <<>>, <<>>)
        ELSE LET how == IF callee.name = "resolve" THEN "resolved" ELSE "rejected" IN
             Outcome([cleaned EXCEPT !.futures = Settle(@, callee.fut, how, argument)],
                     NoError, <<>>, <<>>,
                     << [fut |-> callee.fut, how |-> callee.name, value |-> argument] >>)

\* handleReply emptying both tables instead of deleting the one key
handleReplyClearing(d, message) ==
    LET key == ToPropertyKey(message.id)
        isError == Truthy(message.error)
        callee == IF isError THEN PlainGet(d.rejectors, key)
                  ELSE PlainGet(d.resolvers, key)
        argument == IF isError THEN Get(message.error, S("message"))
                    ELSE message.result
        cleaned == [d EXCEPT !.resolvers = EmptyMap, !.rejectors = EmptyMap]
    IN  IF ~Truthy(callee) \/ "fut" \notin DOMAIN callee
        THEN Outcome(cleaned, NoError, <<>>, <<>>, <<>>)
        ELSE LET how == IF callee.name = "resolve" THEN "resolved" ELSE "rejected" IN
             Outcome([cleaned EXCEPT !.futures = Settle(@, callee.fut, how, argument)],
                     NoError, <<>>, <<>>,
                     << [fut |-> callee.fut, how |-> callee.name, value |-> argument] >>)

\* handleReply answering the oldest pending request, whatever the reply's id
handleReplyInOrder(d, message) ==
    LET isError == Truthy(message.error)
        table == IF isError THEN d.rejectors ELSE d.resolvers
        oldest == {k \in DOMAIN table : \A j \in DOMAIN table : table[k].fut <= table[j].fut}
        key == IF oldest = {} THEN ToPropertyKey(message.id) ELSE CHOOSE k \in oldest : TRUE
        callee == PlainGet(table, key)
        argument == IF isError THEN Get(message.error, S("message"))
                    ELSE message.result
        cleaned == [d EXCEPT !.resolvers = Delete(@, key), !.rejectors = Delete(@, key)]
    IN  IF ~Truthy(callee) \/ "fut" \notin DOMAIN callee
        THEN Outcome(cleaned, NoError, <<>>, <<>>, <<>>)
        ELSE LET how == IF callee.name = "resolve" THEN "resolved" ELSE "rejected" IN
             Outcome([cleaned EXCEPT !.futures = Settle(@, callee.fut, how, argument)],
                     NoError, <<>>, <<>>,
                     << [fut |-> callee.fut, how |-> callee.name, value |-> argument] >>)

\* lines 72-89: a message with a truthy id
handleReply(d, message) ==
    LET key == ToPropertyKey(message.id)
        isError == Truthy(message.error)
        callee == IF isError THEN PlainGet(d.rejectors, key)
                  ELSE PlainGet(d.resolvers, key)
        argument == IF isError THEN Get(message.error, S("message"))
                    ELSE message.result
        cleaned == [d EXCEPT !.resolvers = Delete(@, key), !.rejectors = Delete(@, key)]
    IN  IF ~Truthy(callee)
        THEN Outcome(cleaned, NoError, <<>>, <<>>, <<>>)
        ELSE IF callee.t # "function"
        THEN \* calling a value that is not a function: the deletes are not reached
             Outcome(d, TypeError, <<>>, <<>>, <<>>)
        ELSE IF "fut" \in DOMAIN callee
        THEN LET how == IF callee.name = "resolve" THEN "resolved" ELSE "rejected" IN
             Outcome([cleaned EXCEPT !.futures = Settle(@, callee.fut, how, argument)],
                     NoError, <<>>, <<>>,
                     << [fut |-> callee.fut, how |-> callee.name, value |-> argument] >>)
        ELSE \* an inherited built-in function is called, with no effect here
             Outcome(cleaned, NoError, <<>>, <<>>, <<>>)

\* handleEvent splitting the method at its last '.'
handleEventAtLastDot(d, message) ==
    LET method == message.method IN
    IF method.t # "string"
    THEN Outcome(d, TypeError, <<>>, <<>>, <<>>)
    ELSE LET dots == {i \in 1..Len(method.s) : method.s[i] = "."}
             dotIndex == IF dots = {} THEN -1
                         ELSE (CHOOSE i \in dots : \A j \in dots : j <= i) - 1
             domain == substr(method.s, 0, dotIndex)
             prop == substrFrom(method.s, dotIndex + 1)
             handlers == PlainGet(d.domainListeners, domain)
         IN  IF ~Truthy(handlers)
             THEN Outcome(d, NoError, <<>>, <<>>, <<>>)
             ELSE IF handlers.t # "array"
             THEN Outcome(d, TypeError, <<>>, <<>>, <<>>)
             ELSE Outcome(d, NoError, <<>>,
                          [i \in 1..Len(handlers.items) |->
                              [handler |-> handlers.items[i],
                               prop |-> Str(prop),
                               params |-> message.params]],
                          <<>>)

\* lines 91-101: any other message
handleEvent(d, message) ==
    LET method == message.method IN
    IF method.t # "string"
    THEN \* method.indexOf is not a function / method is undefined
         Outcome(d, TypeError, <<>>, <<>>, <<>>)
    ELSE LET dotIndex == indexOf(method.s, ".")
             domain == substr(method.s, 0, dotIndex)
             prop == substrFrom(method.s, dotIndex + 1)
             handlers == PlainGet(d.domainListeners, domain)
         IN  IF ~Truthy(handlers)
             THEN Outcome(d, NoError, <<>>, <<>>, <<>>)
             ELSE IF handlers.t # "array"
             THEN \* handlers.forEach is not a function
                  Outcome(d, TypeError, <<>>, <<>>, <<>>)
             ELSE Outcome(d, NoError, <<>>,
                          [i \in 1..Len(handlers.items) |->
                              [handler |-> handlers.items[i],
                               prop |-> Str(prop),
                               params |-> message.params]],
                          <<>>)

\* _handleMessage without the return of line 89: a reply that did not throw
\* is handled as an event as well
handleMessageFallingThrough(d, message) ==
    IF Truthy(message.id)
    THEN LET r == handleReply(d, message) IN
         IF r.threw # NoError THEN r
         ELSE LET e == handleEvent(r.d, message) IN
              Outcome(e.d, e.threw, <<>>, e.invoked, r.settled)
    ELSE handleEvent(d, message)

handleMessage(d, message) ==
    IF Truthy(message.id) THEN handleReply(d, message) ELSE handleEvent(d, message)

-----------------------------------------------------------------------------
(* registerDomainListener *)

registerDomainListener(d, name, handler) ==
    LET found == PlainGet(d.domainListeners, name)
        list == IF Truthy(found) THEN found ELSE Arr(<<>>)
    IN  IF list.t # "array"
        THEN \* line 105 has assigned before line 106 finds no push to call
             Outcome([d EXCEPT !.domainListeners = Put(@, name, list)],
                     TypeError, <<>>, <<>>, <<>>)
        ELSE Outcome([d EXCEPT !.domainListeners =
                                  Put(@, name, Arr(Append(list.items, handler)))],
                     NoError, <<>>, <<>>, <<>>)

-----------------------------------------------------------------------------
(* send *)

\* JSON.stringify of params followed by the peer's JSON.parse: the own
\* properties whose value is not undefined
stringify(params) ==
    [k \in {x \in DOMAIN params : params[x].t # "undefined"} |-> params[k]]

\* What the connection's send primitive does before it returns: it takes
\* the text and returns; or it fails; or it emits a 'message' (a loop-back
\* connection), which runs _handleMessage inside the primitive; or something
\* it runs (a listener of such a message, say) calls send on the dispatcher.
Accepting == [kind |-> "accept"]
Failing == [kind |-> "throw"]
Delivering(message) == [kind |-> "deliver", message |-> message]
Sending(namespace, method, params) ==
    [kind |-> "send", namespace |-> namespace, method |-> method, params |-> params]

\* the error a failing primitive throws
ConnectionError == Error(S("connection failed"))

RECURSIVE sendVia(_, _, _, _, _)

\* this._connection.send(text) with a connection that behaves as conn: the
\* outcome of the primitive.  A send made inside it is an async call: its
\* failure is a rejected promise, never an exception in the primitive.
connectionSend(d, envelope, conn) ==
    LET taken == [d EXCEPT !.sentIds = Append(@, envelope.id)] IN
    CASE conn.kind = "accept" -> Outcome(taken, NoError, <<>>, <<>>, <<>>)
      [] conn.kind = "throw" -> Outcome(taken, ConnectionError, <<>>, <<>>, <<>>)
      [] conn.kind = "deliver" -> handleMessage(taken, conn.message)
      [] conn.kind = "send" ->
            LET r == sendVia(taken, conn.namespace, conn.method, conn.params, Accepting)
            IN  Outcome(r.d, NoError, r.sent, r.invoked, r.settled)

\* sendVia with the promise of lines 160-163 created before line 154 hands
\* the envelope to the connection
sendViaRegisteringFirst(d, namespace, method, params, conn) ==
    LET validation == validateParams(namespace, method, params) IN
    IF Truthy(validation.error)
    THEN Outcome(d, Error(validation.error.s), <<>>, <<>>, <<>>)
    ELSE LET f == Len(d.futures) + 1
             key == DecStr(d.id + 1)
             d1 == [d EXCEPT !.id = @ + 1,
                             !.futures = Append(@, NewFuture(d.id + 1)),
                             !.resolvers = Put(@, key, ResolveOf(f)),
                             !.rejectors = Put(@, key, RejectOf(f))]
             envelope == [id |-> d1.id,
                          method |-> namespace \o S(".") \o method,
                          params |-> stringify(params)]
             r == connectionSend(d1, envelope, conn)
         IN  Outcome(r.d, r.threw, <<envelope>> \o r.sent, r.invoked, r.settled)

\* sendVia with the counter written only after the connection has returned
sendViaCountingAfter(d, namespace, method, params, conn) ==
    LET validation == validateParams(namespace, method, params) IN
    IF Truthy(validation.error)
    THEN Outcome(d, Error(validation.error.s), <<>>, <<>>, <<>>)
    ELSE LET envelope == [id |-> d.id + 1,
                          method |-> namespace \o S(".") \o method,
                          params |-> stringify(params)]
             r == connectionSend(d, envelope, conn)
             d2 == [r.d EXCEPT !.id = @ + 1]
             f == Len(d2.futures) + 1
             key == DecStr(d2.id)
         IN  IF r.threw # NoError
             THEN Outcome(r.d, r.threw, <<envelope>> \o r.sent, r.invoked, r.settled)
             ELSE Outcome([d2 EXCEPT !.futures = Append(@, NewFuture(envelope.id)),
                                     !.resolvers = Put(@, key, ResolveOf(f)),
                                     !.rejectors = Put(@, key, RejectOf(f))],
                          NoError, <<envelope>> \o r.sent, r.invoked, r.settled)

\* lines 146-164, over a connection that behaves as conn
sendVia(d, namespace, method, params, conn) ==
    LET validation == validateParams(namespace, method, params) IN
    IF Truthy(validation.error)
    THEN Outcome(d, Error(validation.error.s), <<>>, <<>>, <<>>)
    ELSE LET d1 == [d EXCEPT !.id = @ + 1]
             envelope == [id |-> d1.id,
                          method |-> namespace \o S(".") \o method,
                          params |-> stringify(params)]
             r == connectionSend(d1, envelope, conn)
             d2 == r.d
             \* line 160: the promise executor runs now and reads that._id
             f == Len(d2.futures) + 1
             key == DecStr(d2.id)
         IN  IF r.threw # NoError
             THEN Outcome(d2, r.threw, <<envelope>> \o r.sent, r.invoked, r.settled)
             ELSE Outcome([d2 EXCEPT !.futures = Append(@, NewFuture(envelope.id)),
                                     !.resolvers = Put(@, key, ResolveOf(f)),
                                     !.rejectors = Put(@, key, RejectOf(f))],
                          NoError, <<envelope>> \o r.sent, r.invoked, r.settled)

\* send taking as id one more than the number of pending requests
sendReusingIds(d, namespace, method, params) ==
    LET validation == validateParams(namespace, method, params) IN
    IF Truthy(validation.error)
    THEN Outcome(d, Error(validation.error.s), <<>>, <<>>, <<>>)
    ELSE LET d1 == [d EXCEPT !.id = Cardinality(DOMAIN d.resolvers) + 1]
             envelope == [id |-> d1.id,
                          method |-> namespace \o S(".") \o method,
                          params |-> stringify(params)]
             d2 == connectionSend(d1, envelope, Accepting).d
             f == Len(d2.futures) + 1
             key == DecStr(d2.id)
         IN  Outcome([d2 EXCEPT !.futures = Append(@, NewFuture(envelope.id)),
                                !.resolvers = Put(@, key, ResolveOf(f)),
                                !.rejectors = Put(@, key, RejectOf(f))],
                     NoError, <<envelope>>, <<>>, <<>>)

\* send with the increment of line 153 made before the validation
sendCountingFailures(d, namespace, method, params) ==
    LET validation == validateParams(namespace, method, params)
        d1 == [d EXCEPT !.id = @ + 1]
    IN  IF Truthy(validation.error)
        THEN Outcome(d1, Error(validation.error.s), <<>>, <<>>, <<>>)
        ELSE LET envelope == [id |-> d1.id,
                              method |-> namespace \o S(".") \o method,
                              params |-> stringify(params)]
                 d2 == connectionSend(d1, envelope, Accepting).d
                 f == Len(d2.futures) + 1
                 key == DecStr(d2.id)
             IN  Outcome([d2 EXCEPT !.futures = Append(@, NewFuture(envelope.id)),
                                    !.resolvers = Put(@, key, ResolveOf(f)),
                                    !.rejectors = Put(@, key, RejectOf(f))],
                         NoError, <<envelope>>, <<>>, <<>>)

\* send over a connection that takes the text and returns
send(d, namespace, method, params) == sendVia(d, namespace, method, params, Accepting)

-----------------------------------------------------------------------------
(* getDomainDefinition, getDomainCommands, getDomainCommandNames,
   getDomainEventNames *)

\* the end of a call that changes nothing: a value returned or an error thrown
Returned(value) == [threw |-> NoError, returned |-> value]
Thrown(error) == [threw |-> error, returned |-> Undefined]

\* lines 136-143: the first definition whose domain is name, else null
RECURSIVE definitionScan(_, _, _)
definitionScan(domains, x, name) ==
    IF x > Len(domains) THEN Null
    ELSE IF domains[x].domain = name THEN [t |-> "definition", def |-> domains[x]]
    ELSE definitionScan(domains, x + 1, name)

getDomainDefinition(name) == Returned(definitionScan(Protocol.domains, 1, name))

\* lines 127-129: commandMap[name] = {parameters}, parameters undefined when
\* the command declares none
RECURSIVE commandMap(_, _, _)
commandMap(commands, i, acc) ==
    IF i > Len(commands) THEN acc
    ELSE commandMap(commands, i + 1,
            SetProp(acc, commands[i].name,
                    Plain(S("parameters") :>
                          (IF "parameters" \in DOMAIN commands[i]
                           THEN Arr(commands[i].parameters) ELSE Undefined))))

\* lines 124-132; line 125 destructures what getDomainDefinition returned
getDomainCommands(name) ==
    LET definition == getDomainDefinition(name).returned IN
    IF definition.t = "null"
    THEN \* cannot destructure property 'commands' of null
         Thrown(TypeError)
    ELSE Returned(commandMap(definition.def.commands, 1, Obj(<<>>)))

\* lines 120-122: Object.keys of the command map, in insertion order
getDomainCommandNames(name) ==
    LET commands == getDomainCommands(name) IN
    IF commands.threw # NoError THEN commands
    ELSE Returned(Arr([i \in 1..Len(OwnEntries(commands.returned)) |->
                          Str(OwnEntries(commands.returned)[i].k)]))

\* lines 109-118: the names of the events, none when the definition has no
\* events array
getDomainEventNames(name) ==
    LET definition == getDomainDefinition(name).returned IN
    IF definition.t = "null"
    THEN Thrown(TypeError)
    ELSE IF "events" \in DOMAIN definition.def
    THEN Returned(Arr([i \in 1..Len(definition.def.events) |->
                          Str(definition.def.events[i].name)]))
    ELSE Returned(Arr(<<>>))

-----------------------------------------------------------------------------
(* Inputs *)

V == Str(S("v"))

Commands == {S("navigate"), S("reload"), S("stop"), S("capture"),
             S("nope"), S("constructor")}

\* parameter bags: url absent, undefined or defined; frameId absent, null or
\* defined; an undeclared key absent or defined
Bags ==
    { [k \in ks |-> IF k = S("url") /\ u THEN Undefined
                    ELSE IF k = S("frameId") /\ n THEN Null
                    ELSE V] :
        ks \in SUBSET {S("url"), S("frameId"), S("extra")},
        u \in BOOLEAN, n \in BOOLEAN }

\* every send the validator is exercised with: each command name under the
\* declared domain, and some under an undeclared and an inherited name
SendTargets ==
    ({S("Page")} \X Commands)
    \cup {<<S("Nope"), S("navigate")>>, <<S("constructor"), S("navigate")>>,
          <<S("constructor"), S("constructor")>>}
AllSends == {<<target[1], target[2], bag>> : target \in SendTargets, bag \in Bags}

\* the sends the routing is exercised with
FewSends ==
    { <<S("Page"), S("navigate"), (S("url") :> V) @@ (S("frameId") :> V)>>,
      <<S("Page"), S("navigate"), (S("url") :> V)>>,
      <<S("Network"), S("enable"), EmptyMap>>,
      <<S("Nope"), S("enable"), EmptyMap>>,
      <<S("Page"), S("constructor"), EmptyMap>> }

Message(i, e, r, m, p) == [id |-> i, error |-> e, result |-> r, method |-> m, params |-> p]

ErrorObject == Plain(S("message") :> Str(S("boom")))
ResultObject == Plain(S("frameId") :> Str(S("F1")))
ParamsObject == Plain(S("frameId") :> Str(S("F1")))

MessageIds == {Num(n) : n \in 1..(MaxId + 1)}
Methods == {Str(<<"Page", ".", "loaded">>), Str(<<"Network", ".", "a", ".", "b">>),
            Str(<<"constructor", ".", "x">>), Str(<<"nodot">>)}

\* replies: every id up to one past the last that can be issued, with or
\* without error and result, and some that carry a method as well
Replies ==
    { Message(i, e, r, Undefined, Undefined) :
        i \in MessageIds, e \in {Undefined, Null, ErrorObject},
        r \in {Undefined, ResultObject} }
    \cup
    { Message(i, e, ResultObject, Str(<<"Page", ".", "loaded">>), ParamsObject) :
        i \in MessageIds, e \in {Undefined, ErrorObject} }
    \cup
    { Message(Str(k), Undefined, ResultObject, Undefined, Undefined) :
        k \in {S("constructor"), S("__proto__")} }

\* events: no id or id 0, with or without method and params
Events ==
    { Message(i, Undefined, Undefined, m, p) :
        i \in {Undefined, Num(0)}, m \in Methods \cup {Undefined},
        p \in {Undefined, ParamsObject} }

\* the events the request specification delivers
FewEvents ==
    { Message(Undefined, Undefined, Undefined, m, ParamsObject) :
        m \in Methods \cup {Undefined} }
    \cup { Message(Num(0), Undefined, ResultObject, Str(<<"Page", ".", "loaded">>), Undefined) }

\* the replies the validator's and the listeners' specifications deliver
FewReplies ==
    { Message(i, Undefined, ResultObject, Undefined, Undefined) : i \in MessageIds }
    \cup { Message(Num(1), ErrorObject, Undefined, Str(<<"Page", ".", "loaded">>), ParamsObject) }

\* the sends made over a connection that does more than take the text
ConnectionSends ==
    { <<S("Network"), S("enable"), EmptyMap>>,
      <<S("Page"), S("navigate"), (S("url") :> V)>>,
      <<S("Nope"), S("enable"), EmptyMap>> }

\* what the connection delivers before its send primitive returns: a reply
\* for any id, an event, a message with neither id nor method
WindowMessages ==
    { Message(i, e, ResultObject, Undefined, Undefined) :
        i \in MessageIds, e \in {Undefined, ErrorObject} }
    \cup { Message(Undefined, Undefined, Undefined, Str(<<"Page", ".", "loaded">>), ParamsObject),
           Message(Undefined, Undefined, Undefined, Undefined, Undefined) }

Connections ==
    {Accepting, Failing}
    \cup {Delivering(message) : message \in WindowMessages}
    \cup {Sending(S("Network"), S("enable"), EmptyMap),
          Sending(S("Nope"), S("enable"), EmptyMap)}

\* the domain names the introspection calls are made with
DomainNames == {S("Page"), S("Network"), S("Nope")}

Handlers == {"h1", "h2"}
\* the last is the empty string, the domain of a method with no '.'
ListenerDomains == {S("Page"), S("Network"), S("constructor"), <<>>}

\* every registration, and the ones the request specification makes
Registrations == ListenerDomains \X Handlers
FewRegistrations == {<<S("Page"), "h1">>, <<S("Network"), "h2">>}

-----------------------------------------------------------------------------
(* The state machine *)

\* the number of handlers registered
RECURSIVE Registered(_, _)
Registered(own, keys) ==
    IF keys = {} THEN 0
    ELSE LET k == CHOOSE x \in keys : TRUE IN
         (IF own[k].t = "array" THEN Len(own[k].items) ELSE 0)
         + Registered(own, keys \ {k})

Init ==
    /\ id = 0
    /\ resolvers = EmptyMap
    /\ rejectors = EmptyMap
    /\ domainListeners = EmptyMap
    /\ futures = <<>>
    /\ sentIds = <<>>
    /\ last = [op |-> "new", args |-> <<>>, threw |-> NoError,
               sent |-> <<>>, invoked |-> <<>>, settled |-> <<>>,
               returned |-> Undefined]

\* the dispatcher and the record of the call become those of outcome r
Becomes(op, args, r) ==
    /\ id' = r.d.id
    /\ resolvers' = r.d.resolvers
    /\ rejectors' = r.d.rejectors
    /\ domainListeners' = r.d.domainListeners
    /\ futures' = r.d.futures
    /\ sentIds' = r.d.sentIds
    /\ last' = [op |-> op, args |-> args, threw |-> r.threw,
                sent |-> r.sent, invoked |-> r.invoked, settled |-> r.settled,
                returned |-> Undefined]

\* a call that reads the schema only: the record of the call is all that
\* changes
Answers(op, args, r) ==
    /\ UNCHANGED <<id, resolvers, rejectors, domainListeners, futures, sentIds>>
    /\ last' = [op |-> op, args |-> args, threw |-> r.threw,
                sent |-> <<>>, invoked |-> <<>>, settled |-> <<>>,
                returned |-> r.returned]

Send(inputs) ==
    \E in \in inputs :
        LET r == send(Dispatcher, in[1], in[2], in[3]) IN
        /\ r.d.id <= MaxId
        /\ Becomes("send", in, r)

SendVia(inputs, connections) ==
    \E in \in inputs, conn \in connections :
        LET r == sendVia(Dispatcher, in[1], in[2], in[3], conn) IN
        /\ r.d.id <= MaxId
        /\ Becomes("send", <<in[1], in[2], in[3], conn>>, r)

Receive(messages) ==
    \E message \in messages :
        LET r == handleMessage(Dispatcher, message) IN
        Becomes("message", <<message>>, r)

Register(registrations) ==
    \E in \in registrations :
        LET r == registerDomainListener(Dispatcher, in[1], in[2]) IN
        /\ Registered(r.d.domainListeners, DOMAIN r.d.domainListeners) <= MaxListeners
        /\ Becomes("registerDomainListener", in, r)

GetDomainDefinition(names) ==
    \E name \in names : Answers("getDomainDefinition", <<name>>, getDomainDefinition(name))

GetDomainCommands(names) ==
    \E name \in names : Answers("getDomainCommands", <<name>>, getDomainCommands(name))

GetDomainCommandNames(names) ==
    \E name \in names :
        Answers("getDomainCommandNames", <<name>>, getDomainCommandNames(name))

GetDomainEventNames(names) ==
    \E name \in names : Answers("getDomainEventNames", <<name>>, getDomainEventNames(name))

\* requests and their replies, with events and a few listeners in between
Next ==
    \/ Send(FewSends)
    \/ Receive(Replies \cup FewEvents)
    \/ Register(FewRegistrations)

Spec == Init /\ [][Next]_vars

\* the validator under every input and the schema's introspection, with
\* replies in between
NextSend ==
    \/ Send(AllSends)
    \/ Receive(FewReplies)
    \/ GetDomainDefinition(DomainNames)
    \/ GetDomainCommands(DomainNames)
    \/ GetDomainCommandNames(DomainNames)
    \/ GetDomainEventNames(DomainNames)

SpecSend == Init /\ [][NextSend]_vars

\* requests over a connection whose send primitive fails, delivers an inbound
\* message or makes a send before it returns
NextConnection ==
    \/ SendVia(ConnectionSends, Connections)
    \/ Receive(FewReplies)
    \/ Register({<<S("Page"), "h1">>})

SpecConnection == Init /\ [][NextConnection]_vars

\* the listener registry under every registration and event
NextEvents == Register(Registrations) \/ Receive(Events \cup FewReplies)

SpecEvents == Init /\ [][NextEvents]_vars

-----------------------------------------------------------------------------
(* What the protocol definition declares, read off Protocol itself *)

DomainDeclared(namespace) ==
    \E i \in DOMAIN Protocol.domains : Protocol.domains[i].domain = namespace

CommandDeclared(namespace, method) ==
    \E i \in DOMAIN Protocol.domains :
        /\ Protocol.domains[i].domain = namespace
        /\ \E j \in DOMAIN Protocol.domains[i].commands :
              Protocol.domains[i].commands[j].name = method

\* the declared parameters of a declared command, in declared order
DeclaredParameters(namespace, method) ==
    LET dom == CHOOSE x \in {Protocol.domains[i] : i \in DOMAIN Protocol.domains} :
                   x.domain = namespace
        command == CHOOSE c \in {dom.commands[j] : j \in DOMAIN dom.commands} :
                       c.name = method
    IN  IF "parameters" \in DOMAIN command THEN command.parameters ELSE <<>>

IsRequired(parameter) == ~("optional" \in DOMAIN parameter /\ parameter.optional = TRUE)
HasDefined(bag, name) == name \in DOMAIN bag /\ bag[name].t # "undefined"

\* the required parameters of a declared command that a bag leaves out
RequiredMissing(namespace, method, bag) ==
    LET IsMissing(parameter) == IsRequired(parameter) /\ ~HasDefined(bag, parameter.name)
        left == SelectSeq(DeclaredParameters(namespace, method), IsMissing)
    IN  [i \in 1..Len(left) |-> left[i].name]

RECURSIVE CommaJoined(_)
CommaJoined(names) ==
    IF Len(names) = 0 THEN <<>>
    ELSE IF Len(names) = 1 THEN names[1]
    ELSE names[1] \o <<",">> \o CommaJoined(Tail(names))

\* a step that touches neither the connection, the id counter nor the
\* pending table
LeavesRequestsAlone ==
    /\ last'.sent = <<>>
    /\ sentIds' = sentIds
    /\ id' = id
    /\ resolvers' = resolvers
    /\ rejectors' = rejectors

-----------------------------------------------------------------------------
(* Claims *)

UnknownCommandStep ==
    (last'.op = "send" /\ ~CommandDeclared(last'.args[1], last'.args[2])) =>
        /\ last'.threw =
              Error(IF DomainDeclared(last'.args[1])
                    THEN <<"unknown method: ">> \o last'.args[1] \o <<".">> \o last'.args[2]
                    ELSE <<"unknown namespace: ">> \o last'.args[1])
        /\ LeavesRequestsAlone

\* C1: a send of a (domain, command) pair the schema does not declare fails
\* with 'unknown namespace: <domain>' when the domain is undeclared and with
\* 'unknown method: <domain>.<command>' otherwise, and it hands nothing to the
\* connection, leaves the id counter and the pending table as they were.
C1_UnknownCommandFails == [][UnknownCommandStep]_vars

MissingParameterStep ==
    (/\ last'.op = "send"
     /\ CommandDeclared(last'.args[1], last'.args[2])
     /\ DeclaredParameters(last'.args[1], last'.args[2]) # <<>>) =>
        LET missing == RequiredMissing(last'.args[1], last'.args[2], last'.args[3]) IN
        IF missing # <<>>
        THEN /\ last'.threw = Error(last'.args[2] \o <<" requires '">>
                                    \o CommaJoined(missing) \o <<"' parameter">>)
             /\ LeavesRequestsAlone
        ELSE /\ last'.threw = NoError
             /\ Len(last'.sent) = 1

\* C2: a send of a command that declares parameters fails exactly when a
\* declared parameter whose optional flag is not true has no defined value in
\* the bag; the message names exactly those parameters, comma-joined, in
\* declared order, and nothing is sent and no id is allocated; otherwise the
\* send passes validation, whatever other keys the bag has.
C2_MissingRequiredListed == [][MissingParameterStep]_vars

\* C2 witness: with a request pending, navigate was sent with an undefined url,
\* no frameId and an undeclared key, and failed naming url and frameId.
C2_Witness ==
    /\ last.op = "send"
    /\ last.args = <<S("Page"), S("navigate"), (S("url") :> Undefined) @@ (S("extra") :> V)>>
    /\ last.threw = Error(<<"navigate", " requires '", "url", ",", "frameId", "' parameter">>)
    /\ id = 1
    /\ DOMAIN resolvers = {S("1")}

NoParameterStep ==
    (/\ last'.op = "send"
     /\ CommandDeclared(last'.args[1], last'.args[2])
     /\ DeclaredParameters(last'.args[1], last'.args[2]) = <<>>) =>
        /\ last'.threw = NoError
        /\ id' = id + 1
        /\ Len(last'.sent) = 1
        /\ last'.sent[1].id = id'
        /\ last'.sent[1].method = last'.args[1] \o <<".">> \o last'.args[2]
        /\ sentIds' = Append(sentIds, id')

\* C3: a send of a declared command with no declared parameters (no
\* parameters field, or an empty list) passes validation whatever the bag
\* holds, allocates the next id and hands exactly one envelope, carrying that
\* id, to the connection.
C3_NoParametersAlwaysSent == [][NoParameterStep]_vars

\* C3 witness: stop, declared with an empty parameter list, was sent with a
\* bag holding an undefined url, a null frameId and an undeclared key.
C3_Witness ==
    /\ last.op = "send"
    /\ last.args[2] = S("stop")
    /\ DOMAIN last.args[3] = {S("url"), S("frameId"), S("extra")}
    /\ last.threw = NoError
    /\ Len(last.sent) = 1
    /\ sentIds = <<1, 2>>

\* C4: the ids of the envelopes handed to the connection are 1, 2, 3, ... in
\* the order of the sends, whatever failed sends and inbound messages come
\* in between.
C4_IdsCountFromOne == \A i \in DOMAIN sentIds : sentIds[i] = i

\* C4 witness: a second envelope, carrying id 2, went out after the first
\* request had been answered by an error reply.
C4_Witness ==
    /\ last.op = "send"
    /\ last.threw = NoError
    /\ sentIds = <<1, 2>>
    /\ last.sent[1].id = 2
    /\ Len(futures) = 2
    /\ futures[1].state = "rejected"

-----------------------------------------------------------------------------
(* Replies *)

\* the futures of the requests whose envelope carried the id of a message
Matching(message) ==
    {f \in DOMAIN futures : message.id.t = "number" /\ futures[f].request = message.id.n}

\* the reply just received (the step's message) is for a request that was
\* pending as future f
AnswersPending(f) ==
    /\ last'.op = "message"
    /\ Truthy(last'.args[1].id)
    /\ f \in Matching(last'.args[1])
    /\ futures[f].state = "pending"

\* no entry for future f is in the pending table after the step
EntryRemoved(f) ==
    /\ \A k \in DOMAIN resolvers' : resolvers'[k] # ResolveOf(f)
    /\ \A k \in DOMAIN rejectors' : rejectors'[k] # RejectOf(f)

ResultReplyStep ==
    /\ \A f \in DOMAIN futures :
          (AnswersPending(f) /\ last'.args[1].error = Undefined) =>
              /\ futures'[f].state = "resolved"
              /\ futures'[f].value = last'.args[1].result
              /\ EntryRemoved(f)
    /\ (/\ last'.op = "message"
        /\ \E f \in Matching(last'.args[1]) : futures[f].state # "pending") =>
              /\ last'.threw = NoError
              /\ last'.settled = <<>>
              /\ last'.invoked = <<>>
              /\ futures' = futures
              /\ resolvers' = resolvers
              /\ rejectors' = rejectors
              /\ domainListeners' = domainListeners

\* C5: a reply without an error field for an id with a pending request
\* resolves that request's future with the reply's result and removes its
\* pending entry; a later reply with the same id, with or without error,
\* completes no future and leaves the pending table and the listener registry
\* as they were.
C5_ResultResolvesOnce == [][ResultReplyStep]_vars

\* C5 witness: the first request was resolved with the result of its reply,
\* and the last message was another reply for id 1, an error one, that
\* completed nothing.
C5_Witness ==
    /\ last.op = "message"
    /\ last.args[1].id = Num(1)
    /\ last.args[1].error = ErrorObject
    /\ last.settled = <<>>
    /\ Len(futures) = 2
    /\ futures[1].state = "resolved"
    /\ futures[1].value = ResultObject
    /\ S("1") \notin DOMAIN resolvers
    /\ S("2") \in DOMAIN resolvers

ErrorReplyStep ==
    \A f \in DOMAIN futures :
        (AnswersPending(f) /\ last'.args[1].error.t = "plain") =>
            /\ futures'[f].state = "rejected"
            /\ futures'[f].value = last'.args[1].error.own[S("message")]
            /\ last'.settled = << [fut |-> f, how |-> "reject",
                                   value |-> last'.args[1].error.own[S("message")]] >>
            /\ EntryRemoved(f)

C7_CompletedAtMostOnce == \A f \in DOMAIN futures : futures[f].calls <= 1

\* C7 witness: a future completed once, and the last message was a further
\* reply for its id that carried both an error and a result.
C7_Witness ==
    /\ last.op = "message"
    /\ last.args[1].id = Num(1)
    /\ last.args[1].error = ErrorObject
    /\ last.args[1].result = ResultObject
    /\ last.settled = <<>>
    /\ Len(futures) >= 1
    /\ futures[1].calls = 1
    /\ futures[1].state = "rejected"

\* the one callback a reply for pending future f calls is its reject
\* function when isError and its resolve function otherwise
CallsExactlyOne(f, isError) ==
    /\ Len(last'.settled) = 1
    /\ last'.settled[1].fut = f
    /\ last'.settled[1].how = IF isError THEN "reject" ELSE "resolve"
    /\ futures'[f].calls = 1

PresentErrorStep ==
    \A f \in DOMAIN futures :
        AnswersPending(f) => CallsExactlyOne(f, last'.args[1].error # Undefined)

\* C8 as claimed: each reply for a pending id calls exactly one of the
\* request's resolve and reject functions: reject exactly when the reply
\* carries an error field, resolve otherwise.
C8_RejectsIffErrorPresent == [][PresentErrorStep]_vars

TruthyErrorStep ==
    \A f \in DOMAIN futures :
        AnswersPending(f) => CallsExactlyOne(f, Truthy(last'.args[1].error))

\* C8 as amended: each reply for a pending id calls exactly one of the
\* request's resolve and reject functions: reject exactly when the reply's
\* error field is truthy (also when it carries a result as well), resolve
\* otherwise (a reply with neither field, or with an error field of null).
C8_RejectsIffErrorTruthy == [][TruthyErrorStep]_vars

\* C8 witness: a reply carrying both an error object and a result answered
\* the pending first request, and only its reject function was called.
C8_Witness ==
    /\ last.op = "message"
    /\ last.args[1].id = Num(1)
    /\ last.args[1].error = ErrorObject
    /\ last.args[1].result = ResultObject
    /\ last.settled = << [fut |-> 1, how |-> "reject", value |-> Str(S("boom"))] >>
    /\ futures[1].calls = 1

-----------------------------------------------------------------------------
(* Events *)

HasDot(s) == \E i \in 1..Len(s) : s[i] = "."
FirstDot(s) == CHOOSE i \in 1..Len(s) : s[i] = "." /\ \A j \in 1..(i - 1) : s[j] # "."
DomainPart(s) == SubSeq(s, 1, FirstDot(s) - 1)
NamePart(s) == SubSeq(s, FirstDot(s) + 1, Len(s))

\* the handlers registered for a domain, in registration order
RegisteredFor(registry, domain) ==
    IF domain \in DOMAIN registry /\ registry[domain].t = "array"
    THEN registry[domain].items
    ELSE <<>>

\* a message without id whose method is "<domain>.<name>"
IsEvent(message) ==
    /\ message.id = Undefined
    /\ message.method.t = "string"
    /\ HasDot(message.method.s)

\* C9: an inbound message with no id and method "D.n" calls every listener
\* registered for D once, in registration order, each with ("n", params),
\* and no other listener; with no listener registered for D nothing is
\* called and nothing is thrown.
C9_EventReachesItsListeners ==
    (last.op = "message" /\ IsEvent(last.args[1])) =>
        LET listeners == RegisteredFor(domainListeners, DomainPart(last.args[1].method.s)) IN
        /\ last.threw = NoError
        /\ last.invoked =
              [i \in 1..Len(listeners) |->
                  [handler |-> listeners[i],
                   prop |-> Str(NamePart(last.args[1].method.s)),
                   params |-> last.args[1].params]]

UntargetedMessageStep ==
    (/\ last'.op = "message"
     /\ \/ /\ IsEvent(last'.args[1])
           /\ RegisteredFor(domainListeners, DomainPart(last'.args[1].method.s)) = <<>>
        \/ /\ last'.args[1].id.t = "number"
           /\ last'.args[1].id.n > 0
           /\ \A f \in Matching(last'.args[1]) : futures[f].state # "pending") =>
        /\ last'.threw = NoError
        /\ last'.settled = <<>>
        /\ last'.invoked = <<>>
        /\ futures' = futures
        /\ resolvers' = resolvers
        /\ rejectors' = rejectors
        /\ domainListeners' = domainListeners
        /\ id' = id

\* C10: the inbound router throws neither for an event whose domain has no
\* registered listener nor for a reply whose id has no pending request, and
\* then it completes no future and leaves the pending table, the listener
\* registry and the id counter as they were.
C10_UntargetedMessagesTolerated == [][UntargetedMessageStep]_vars

-----------------------------------------------------------------------------
(* Malformed inbound messages *)

\* a message that is neither a reply nor an event "<domain>.<name>": its id
\* is not truthy and its method is absent or has no '.'
Malformed(message) ==
    /\ ~Truthy(message.id)
    /\ \/ message.method = Undefined
       \/ message.method.t = "string" /\ ~HasDot(message.method.s)

MalformedMessageStep ==
    (last'.op = "message" /\ Malformed(last'.args[1])) =>
        /\ last'.threw = NoError
        /\ last'.settled = <<>>
        /\ futures' = futures
        /\ resolvers' = resolvers
        /\ rejectors' = rejectors
        /\ domainListeners' = domainListeners
        /\ id' = id

\* C11: an inbound message with neither a truthy id nor a method, or with a
\* method that has no '.', is ignored: nothing is thrown, no future is
\* completed, and the pending table, the listener registry and the id counter
\* stay as they were.
C11_MalformedMessagesTolerated == [][MalformedMessageStep]_vars

-----------------------------------------------------------------------------
(* Pending requests *)

\* the pending table holds the callbacks of future f
HasEntry(f) ==
    /\ \E k \in DOMAIN resolvers : resolvers[k] = ResolveOf(f)
    /\ \E k \in DOMAIN rejectors : rejectors[k] = RejectOf(f)

\* the step keeps the callbacks of future f under the keys they are under
KeepsEntry(f) ==
    /\ \A k \in DOMAIN resolvers :
          resolvers[k] = ResolveOf(f) => k \in DOMAIN resolvers' /\ resolvers'[k] = ResolveOf(f)
    /\ \A k \in DOMAIN rejectors :
          rejectors[k] = RejectOf(f) => k \in DOMAIN rejectors' /\ rejectors'[k] = RejectOf(f)

\* the step is the arrival of a reply that carries the id of future f's
\* request
RepliesTo(f) ==
    /\ last'.op = "message"
    /\ Truthy(last'.args[1].id)
    /\ f \in Matching(last'.args[1])

OnlyItsReplyStep ==
    \A f \in DOMAIN futures :
        futures[f].state = "pending" =>
            /\ HasEntry(f)
            /\ ~RepliesTo(f) => (futures'[f] = futures[f] /\ KeepsEntry(f))

\* C12: a pending request is completed, and its pending entry removed, only
\* by the arrival of a reply that carries its id: a send, a registration, an
\* event, a reply for another id and a step in which nothing happens all
\* leave its future pending and its entry in the table, so a request whose
\* reply never arrives stays pending with its entry present.
C12_OnlyItsReplyCompletes == [][OnlyItsReplyStep]_vars

\* C12 witness: the second request has been answered and an event has just
\* been delivered to a listener, and the first request is still pending with
\* its entry in the table.
C12_Witness ==
    /\ Len(futures) = 2
    /\ futures[1].state = "pending"
    /\ futures[2].state = "resolved"
    /\ HasEntry(1)
    /\ last.op = "message"
    /\ last.args[1].id = Undefined
    /\ last.invoked # <<>>

\* what a reply hands to the future it completes
Completion(message) ==
    IF Truthy(message.error)
    THEN [state |-> "rejected", value |-> Get(message.error, S("message"))]
    ELSE [state |-> "resolved", value |-> message.result]

AnyOrderStep ==
    (last'.op = "message" /\ Truthy(last'.args[1].id)) =>
        \A f \in DOMAIN futures :
            futures[f].state = "pending" =>
                IF f \in Matching(last'.args[1])
                THEN /\ futures'[f].state = Completion(last'.args[1]).state
                     /\ futures'[f].value = Completion(last'.args[1]).value
                ELSE futures'[f] = futures[f]

\* C13: with several requests pending, a reply, whichever of them it answers
\* and whatever the order of the replies, completes the future of the request
\* whose envelope carried the reply's id, with the reply's payload (its
\* result, or the message of its error), and leaves every other pending
\* request pending.
C13_RepliesInAnyOrder == [][AnyOrderStep]_vars

\* C13 witness: two requests were in flight, the second was answered first
\* (with an error) and the reply that has just arrived resolved the first.
C13_Witness ==
    /\ Len(futures) = 2
    /\ futures[2].state = "rejected"
    /\ futures[2].value = Str(S("boom"))
    /\ futures[1].state = "resolved"
    /\ futures[1].value = ResultObject
    /\ last.op = "message"
    /\ last.args[1].id = Num(1)
    /\ last.settled # <<>>

\* the keys of ids issued so far
IssuedKeys == {DecStr(n) : n \in 1..id}

IssuedIdsStep ==
    /\ DOMAIN resolvers \subseteq IssuedKeys
    /\ DOMAIN rejectors \subseteq IssuedKeys
    /\ \A i, j \in 1..Len(sentIds) : sentIds[i] = sentIds[j] => i = j
    /\ \A i \in 1..Len(sentIds) : sentIds[i] \in 1..id
    /\ \A n \in 1..id :
          DecStr(n) \notin DOMAIN resolvers =>
              DecStr(n) \notin DOMAIN resolvers' /\ DecStr(n) \notin DOMAIN rejectors'

\* C16: in every reachable state the keys of the pending table are ids that
\* were issued (1 up to the counter), no id was handed to the connection
\* twice, and an issued id that is no longer in the table, its entry removed
\* by a reply, is in the table in no later state.
C16_PendingIdsWereIssued == [][IssuedIdsStep]_vars

\* C16 witness: ids 1 and 2 were issued, the entry of id 1 was removed by
\* its reply and a send made after that registered id 2, not id 1 again.
C16_Witness ==
    /\ sentIds = <<1, 2>>
    /\ Len(futures) = 2
    /\ futures[1].state = "resolved"
    /\ DOMAIN resolvers = {S("2")}
    /\ DOMAIN rejectors = {S("2")}
    /\ last.op = "send"
    /\ last.threw = NoError

-----------------------------------------------------------------------------
(* Classification of inbound messages *)

ClassificationStep ==
    last'.op = "message" =>
        IF Truthy(last'.args[1].id)
        THEN \* a reply only: no listener is called
             /\ last'.invoked = <<>>
             /\ domainListeners' = domainListeners
        ELSE \* an event only: no request is completed or removed
             /\ last'.settled = <<>>
             /\ futures' = futures
             /\ resolvers' = resolvers
             /\ rejectors' = rejectors
             /\ IsEvent([last'.args[1] EXCEPT !.id = Undefined]) =>
                   LET method == last'.args[1].method.s
                       listeners == RegisteredFor(domainListeners, DomainPart(method))
                   IN  listeners # <<>> => Len(last'.invoked) = Len(listeners)

\* C17: a message is classified by the truthiness of its id, and as one
\* thing only.  With a truthy id it is a reply and calls no listener, even
\* if it carries a method for which listeners are registered.  With the id
\* absent or 0 it is an event: it is delivered to the listeners of its
\* domain and it completes no future and removes no pending entry.
C17_ClassifiedByIdTruthiness == [][ClassificationStep]_vars

\* C17 witness: with a request pending and a listener registered for Page,
\* a message with a truthy id and the method Page.loaded has completed the
\* request and called no listener.
C17_Witness ==
    /\ S("Page") \in DOMAIN domainListeners
    /\ last.op = "message"
    /\ Truthy(last.args[1].id)
    /\ last.args[1].method = Str(<<"Page", ".", "loaded">>)
    /\ last.settled # <<>>
    /\ last.invoked = <<>>

-----------------------------------------------------------------------------
(* The split of an event's method *)

\* the domain and the member name the claim gives for a method
SplitDomain(s) == IF HasDot(s) THEN DomainPart(s) ELSE <<>>
SplitName(s) == IF HasDot(s) THEN NamePart(s) ELSE s

\* C18: an event's method is split at its first '.': the listeners called
\* are those registered for the text before it, and the name they are given
\* is all the text after it, further dots included ("Network.a.b" calls the
\* listeners of "Network" with "a.b"); a method with no '.' calls the
\* listeners of the empty-string domain with the whole method as the name.
C18_SplitAtFirstDot ==
    (/\ last.op = "message"
     /\ ~Truthy(last.args[1].id)
     /\ last.args[1].method.t = "string") =>
        LET method == last.args[1].method.s
            listeners == RegisteredFor(domainListeners, SplitDomain(method))
        IN  listeners # <<>> =>
               last.invoked =
                  [i \in 1..Len(listeners) |->
                      [handler |-> listeners[i],
                       prop |-> Str(SplitName(method)),
                       params |-> last.args[1].params]]

\* C18 witness: with listeners registered for "Network" and for the empty
\* string, the event "nodot" has just called the latter with the name
\* "nodot".
C18_Witness ==
    /\ RegisteredFor(domainListeners, S("Network")) # <<>>
    /\ RegisteredFor(domainListeners, <<>>) # <<>>
    /\ last.op = "message"
    /\ last.args[1].method = Str(<<"nodot">>)
    /\ Len(last.invoked) = 1
    /\ last.invoked[1].prop = Str(<<"nodot">>)

-----------------------------------------------------------------------------
(* Introspection of an absent domain *)

\* the error that says a domain is not in the schema
NotFoundError == [t |-> "NotFoundError"]

\* C14: for a domain the schema does not declare, getDomainCommands fails
\* with a not-found error or returns null or an empty map, and
\* getDomainDefinition returns null and throws nothing.
C14_AbsentDomainIntrospection ==
    (last.op \in {"getDomainCommands", "getDomainDefinition"}
        /\ ~DomainDeclared(last.args[1])) =>
        IF last.op = "getDomainCommands"
        THEN \/ last.threw = NotFoundError
             \/ last.threw = NoError /\ last.returned \in {Null, Obj(<<>>)}
        ELSE last.threw = NoError /\ last.returned = Null

-----------------------------------------------------------------------------
(* The connection's send primitive *)

\* C15: every successful send registers its pending request under the id it
\* put in its own envelope, and no two sends register under one id: after a
\* send that succeeded, each envelope it caused to be handed to the
\* connection has its own future's callbacks in the pending table under that
\* envelope's id.  This also holds when the connection's send primitive calls
\* send or delivers an inbound message before it returns.
C15_RegisteredUnderOwnId ==
    (last.op = "send" /\ last.threw = NoError) =>
        \A i \in 1..Len(last.sent) :
            LET key == DecStr(last.sent[i].id) IN
            \E f \in DOMAIN futures :
                /\ futures[f].request = last.sent[i].id
                /\ key \in DOMAIN resolvers /\ resolvers[key] = ResolveOf(f)
                /\ key \in DOMAIN rejectors /\ rejectors[key] = RejectOf(f)

\* the message the step hands to _handleMessage, if any: the one received,
\* or the one the connection delivered inside its send primitive
Handled ==
    IF last'.op = "message" THEN {last'.args[1]}
    ELSE IF last'.op = "send" /\ last'.args[4].kind = "deliver" /\ last'.sent # <<>>
    THEN {last'.args[4].message}
    ELSE {}

\* the step handles a reply whose id is the key the callbacks of future f
\* are under
RepliesToEntry(f) ==
    \E message \in Handled :
        /\ Truthy(message.id)
        /\ PlainGet(resolvers, ToPropertyKey(message.id)) = ResolveOf(f)

ReplyInWindowStep ==
    /\ (/\ last'.op = "send"
        /\ last'.threw = NoError
        /\ last'.args[4].kind = "deliver"
        /\ last'.args[4].message.id = Num(id + 1)) =>
            LET f == Len(futures') IN
            /\ last'.sent[1].id = id + 1
            /\ DecStr(id + 1) \notin DOMAIN resolvers
            /\ last'.settled = <<>>
            /\ Len(futures') = Len(futures) + 1
            /\ \A g \in DOMAIN futures : futures'[g] = futures[g]
            /\ futures'[f] = NewFuture(id + 1)
            /\ resolvers' = Put(resolvers, DecStr(id + 1), ResolveOf(f))
            /\ rejectors' = Put(rejectors, DecStr(id + 1), RejectOf(f))
    /\ \A f \in DOMAIN futures :
            (futures[f].state = "pending" /\ ~RepliesToEntry(f)) =>
                futures'[f] = futures[f]

\* C19: send hands the envelope to the connection before it registers the
\* pending entry.  A reply for the id being sent that the connection
\* delivers before its send primitive returns finds no entry and completes
\* nothing; the entry is registered afterwards, and its future stays pending
\* in every later step that handles no reply for the id it is under.
C19_ReplyInWindowIsLost == [][ReplyInWindowStep]_vars

\* C19 witness: the reply for id 1 was delivered inside the connection's
\* send primitive of the send that issued id 1, and the request is pending
\* with its entry in the table.
C19_Witness ==
    /\ last.op = "send"
    /\ last.threw = NoError
    /\ last.args[4] = Delivering(Message(Num(1), Undefined, ResultObject, Undefined, Undefined))
    /\ sentIds = <<1>>
    /\ Len(futures) = 1
    /\ futures[1] = NewFuture(1)
    /\ resolvers = (S("1") :> ResolveOf(1))
    /\ last.settled = <<>>

FailingPrimitiveStep ==
    /\ (last'.op = "send" /\ last'.args[4] = Failing /\ last'.sent # <<>>) =>
            /\ last'.threw = ConnectionError
            /\ id' = id + 1
            /\ futures' = futures
            /\ resolvers' = resolvers
            /\ rejectors' = rejectors
    /\ (last'.op = "send" /\ last'.threw = NoError) => last'.sent[1].id = id + 1

\* C20: when the connection's send primitive fails, the error reaches the
\* caller of send and no pending entry is registered, but the id counter
\* has advanced: the next successful send puts the following id in its
\* envelope.
C20_FailedPrimitiveConsumesId == [][FailingPrimitiveStep]_vars

\* C20 witness: the first send failed in the connection with id 1, and the
\* send that has just succeeded used id 2 and holds the only pending entry.
C20_Witness ==
    /\ sentIds = <<1, 2>>
    /\ Len(futures) = 1
    /\ futures[1] = NewFuture(2)
    /\ DOMAIN resolvers = {S("2")}
    /\ last.op = "send"
    /\ last.threw = NoError
    /\ last.args[4] = Accepting

====
